---- MODULE Spec2Model ----
(***************************************************************************)
(* File based event store of CSTBox (pycstbox.evtdao.fsys.dao_fsys).       *)
(*                                                                         *)
(* The state is one EventsDAO instance (its private fields), the content   *)
(* of its storage directory <dbhome>/<channel>, the wall clock read by     *)
(* time.time(), and the observation of the last call (operation, error,    *)
(* yielded events).  Every public method is one action.                    *)
(*                                                                         *)
(* Representation of the Python values:                                    *)
(*   - msecs (milliseconds since the epoch) is the pair <<days, ms>> that  *)
(*     stands for days * 86400000 + ms, with 0 <= ms < 86400000;           *)
(*   - a datetime is a record [year, month, day, hour, minute, second,     *)
(*     microsecond]; None is NoTime;                                       *)
(*   - a date is the tuple <<year, month, day>>; None is NoDate;           *)
(*   - a dict is a set of <<key, value>> pairs;                            *)
(*   - a Python value is a record [type, repr], repr being str(value);     *)
(*   - a text line is the sequence of its tab separated fields; the first  *)
(*     field of a line written by insert_event is the formatted time       *)
(*     stamp, kept as the record of its digit groups;                      *)
(*   - None and '' for var_type / var_name filters are both "" (falsy).    *)
(***************************************************************************)
EXTENDS Integers, Sequences, FiniteSets, TLC

(***************************************************************************)
(* Bounds of the model.                                                    *)
(***************************************************************************)
MaxEvents == 3
MaxTicks == 3
MaxCorrupt == 2
MaxArgs == 3
MaxSignals == 2

(***************************************************************************)
(* Program constants.                                                      *)
(***************************************************************************)
MAX_FLUSH_AGE == 3600 * 2

NoTime == [year |-> 0, month |-> 0, day |-> 0, hour |-> 0, minute |-> 0,
           second |-> 0, microsecond |-> 0]
NoDate == <<0, 0, 0>>

(***************************************************************************)
(* datetime: the library operations the DAO relies on.                     *)
(***************************************************************************)
civil_from_days(n) ==
    LET z == n + 719468
        era == z \div 146097
        doe == z - era * 146097
        yoe == (doe - doe \div 1460 + doe \div 36524 - doe \div 146096) \div 365
        doy == doe - (365 * yoe + yoe \div 4 - yoe \div 100)
        mp == (5 * doy + 2) \div 153
        d == doy - (153 * mp + 2) \div 5 + 1
        m == IF mp < 10 THEN mp + 3 ELSE mp - 9
        y == yoe + era * 400 + (IF m <= 2 THEN 1 ELSE 0)
    IN <<y, m, d>>

utcfromtimestamp(msecs) ==
    LET ymd == civil_from_days(msecs[1])
        ms == msecs[2]
    IN [year |-> ymd[1], month |-> ymd[2], day |-> ymd[3],
        hour |-> ms \div 3600000,
        minute |-> (ms \div 60000) % 60,
        second |-> (ms \div 1000) % 60,
        microsecond |-> (ms % 1000) * 1000]

date_of(dt) == <<dt.year, dt.month, dt.day>>

dt_key(dt) == <<dt.year, dt.month, dt.day, dt.hour, dt.minute, dt.second,
                dt.microsecond>>

RECURSIVE lex_less(_, _)
lex_less(a, b) ==
    IF a = <<>> \/ b = <<>> THEN FALSE
    ELSE IF Head(a) # Head(b) THEN Head(a) < Head(b)
    ELSE lex_less(Tail(a), Tail(b))

dt_lt(a, b) == lex_less(dt_key(a), dt_key(b))
date_lt(a, b) == lex_less(a, b)
date_le(a, b) == a = b \/ lex_less(a, b)

is_leap(y) == (y % 4 = 0 /\ y % 100 # 0) \/ y % 400 = 0
days_in_month(y, m) ==
    IF m = 2 THEN (IF is_leap(y) THEN 29 ELSE 28)
    ELSE IF m \in {4, 6, 9, 11} THEN 30 ELSE 31

\* the instant one microsecond after dt
plus_1us(dt) ==
    IF dt.microsecond < 999999 THEN [dt EXCEPT !.microsecond = @ + 1]
    ELSE IF dt.second < 59 THEN [dt EXCEPT !.microsecond = 0, !.second = @ + 1]
    ELSE IF dt.minute < 59
         THEN [dt EXCEPT !.microsecond = 0, !.second = 0, !.minute = @ + 1]
    ELSE IF dt.hour < 23
         THEN [dt EXCEPT !.microsecond = 0, !.second = 0, !.minute = 0,
                         !.hour = @ + 1]
    ELSE LET nd == IF dt.day < days_in_month(dt.year, dt.month)
                   THEN <<dt.year, dt.month, dt.day + 1>>
                   ELSE IF dt.month < 12 THEN <<dt.year, dt.month + 1, 1>>
                   ELSE <<dt.year + 1, 1, 1>>
         IN [year |-> nd[1], month |-> nd[2], day |-> nd[3], hour |-> 0,
             minute |-> 0, second |-> 0, microsecond |-> 0]

\* the instant one microsecond before dt
minus_1us(dt) ==
    IF dt.microsecond > 0 THEN [dt EXCEPT !.microsecond = @ - 1]
    ELSE IF dt.second > 0
         THEN [dt EXCEPT !.microsecond = 999999, !.second = @ - 1]
    ELSE IF dt.minute > 0
         THEN [dt EXCEPT !.microsecond = 999999, !.second = 59, !.minute = @ - 1]
    ELSE IF dt.hour > 0
         THEN [dt EXCEPT !.microsecond = 999999, !.second = 59, !.minute = 59,
                         !.hour = @ - 1]
    ELSE LET pd == IF dt.day > 1 THEN <<dt.year, dt.month, dt.day - 1>>
                   ELSE IF dt.month > 1
                        THEN <<dt.year, dt.month - 1,
                               days_in_month(dt.year, dt.month - 1)>>
                   ELSE <<dt.year - 1, 12, 31>>
         IN [year |-> pd[1], month |-> pd[2], day |-> pd[3], hour |-> 23,
             minute |-> 59, second |-> 59, microsecond |-> 999999]

(***************************************************************************)
(* Record codec: the text of one record and of a file name.                *)
(***************************************************************************)
\* datetime.strftime(_TS_FMT), _TS_FMT = '%y%m%d-%H%M%S.%f': two digit year
strftime(dt) ==
    [yy |-> dt.year % 100, mm |-> dt.month, dd |-> dt.day, HH |-> dt.hour,
     MM |-> dt.minute, SS |-> dt.second, f |-> dt.microsecond]

\* the century strptime gives a two digit year (%y): 69..99 -> 19xx, 0..68 -> 20xx
pivot_year(yy) == IF yy >= 69 THEN 1900 + yy ELSE 2000 + yy

\* whether datetime.strptime(text, _TS_FMT) returns (no ValueError)
strptime_ok(text) ==
    /\ text.yy \in 0..99
    /\ text.mm \in 1..12
    /\ text.dd >= 1 /\ text.dd <= days_in_month(pivot_year(text.yy), text.mm)
    /\ text.HH \in 0..23 /\ text.MM \in 0..59 /\ text.SS \in 0..59
    /\ text.f \in 0..999999

strptime(text) ==
    [year |-> pivot_year(text.yy), month |-> text.mm, day |-> text.dd,
     hour |-> text.HH, minute |-> text.MM, second |-> text.SS,
     microsecond |-> text.f]

\* "%02d%02d%02d%s" % (year % 100, month, day, _FILE_EXT): the file name
get_path_for_day(year, month, day) == <<year % 100, month, day>>

\* datetime.strptime(name[:6], _FNAME_DATE_FMT).date()
date_of_name(name) == <<pivot_year(name[1]), name[2], name[3]>>

\* json: the texts of the model and the dicts they stand for
UNIT_C == {<<"unit", [type |-> "str", repr |-> "C"]>>}
VALUE_21 == {<<"value", [type |-> "float", repr |-> "21.5"]>>}
VALUE_ON == {<<"value", [type |-> "str", repr |-> "on"]>>}
JsonTable ==
    << <<"{}", {}>>,
       <<"{\"unit\": \"C\"}", UNIT_C>>,
       <<"{\"value\": 21.5}", VALUE_21>>,
       <<"{\"value\": 21.5, \"unit\": \"C\"}", VALUE_21 \cup UNIT_C>>,
       <<"{\"value\": \"on\"}", VALUE_ON>> >>

json_loads_ok(text) == \E i \in DOMAIN JsonTable : JsonTable[i][1] = text
json_loads(text) ==
    JsonTable[CHOOSE i \in DOMAIN JsonTable : JsonTable[i][1] = text][2]
json_dumps(d) ==
    JsonTable[CHOOSE i \in DOMAIN JsonTable : JsonTable[i][2] = d][1]

has_key(d, k) == \E kv \in d : kv[1] = k
dict_get(d, k) == (CHOOSE kv \in d : kv[1] = k)[2]
dict_del(d, k) == {kv \in d : kv[1] # k}

\* str(value)
str(value) == value.repr

\* events.make_timed_event(ts, var_type, var_name, value=..., **data)
make_timed_event(ts, var_type, var_name, value, data) ==
    [timestamp |-> ts, var_type |-> var_type, var_name |-> var_name,
     value |-> value, data |-> data]

\* s.split(sep) for the strings of the model: "a\tb" holds a tab and "a\nb"
\* a newline, no other string of the model holds a control character
split(s, sep) ==
    IF sep = "\t" /\ s = "a\tb" THEN <<"a", "b">>
    ELSE IF sep = "\n" /\ s = "a\nb" THEN <<"a", "b">>
    ELSE <<s>>

\* The text '\t'.join(fields) + '\n' as a reader of the file gets it: the
\* lines it makes, each as the fields record.strip().split('\t') returns.
\* lines holds the lines of the fields joined so far, its last line is the
\* one the next field is joined to.  (No line of the model begins or ends
\* with white space, so strip() removes the newline only.)
join_field(lines, field) ==
    LET pieces == split(field, "\n")
        joined == [lines EXCEPT ![Len(lines)] = @ \o split(pieces[1], "\t")]
    IN joined \o [j \in 1..(Len(pieces) - 1) |-> split(pieces[j + 1], "\t")]

RECURSIVE join_fields(_, _)
join_fields(lines, fields) ==
    IF fields = <<>> THEN lines
    ELSE join_fields(join_field(lines, Head(fields)), Tail(fields))

\* lines 157-162: the text written for one event, as the lines it makes
encode_record(timestamp, var_type, var_name, value, json_data) ==
    join_fields(<< <<strftime(timestamp)>> >>,
                <<var_type, var_name, str(value), json_data>>)

(***************************************************************************)
(* State.                                                                  *)
(***************************************************************************)
VARIABLES
    readonly,       \* self._readonly
    flash_memory,   \* self._flash_memory
    current_file,   \* self._current_file: <<>> is None, <<h>> a file object
                    \* h = [path, buf, closed], buf the lines written to the
                    \* object and not yet flushed to the file
    current_day,    \* self._current_day: 0 is None, else a day of month
    last_flush,     \* self._last_flush
    disk,           \* the *.evt-log files of the storage root: name -> lines
    clock,          \* time.time(), in seconds
    op,             \* the method called last
    err,            \* how it ended: "ok" or the exception raised
    query,          \* the arguments of the call made last
    result,         \* the events it yielded
    accepted,       \* history: the events insert_event wrote, in call order
    last_phys,      \* history: clock of the last physical flush, -1 if none
    flushed,        \* history: number of accepted events when flush() last
                    \* returned
    nodes,          \* what the paths dbhome and dbhome/channel are on disk:
                    \* "missing", "file" or "dir" ("denied": a directory
                    \* the process may not write to)
    wopen,          \* the paths of the files open for writing, in the order
                    \* they were opened
    caller_data,    \* the data object of the last insert_event call, as the
                    \* caller holds it after the call
    scan,           \* the generator a get_events call returned, and the
                    \* files it holds open for reading
    ncalls,         \* number of insert_event calls so far
    nticks,         \* number of clock steps so far
    ncorrupt,       \* number of damaged lines put in the files so far
    daemon          \* the evtdbd process: its arguments, the DAOs and the
                    \* service objects it created, the storage roots and
                    \* what was appended under each

dao == <<readonly, flash_memory, current_file, current_day, last_flush>>
obs == <<op, err, query, result>>
vars == <<readonly, flash_memory, current_file, current_day, last_flush, disk,
          clock, op, err, query, result, accepted, last_phys, flushed, nodes,
          wopen, caller_data, scan, ncalls, nticks, ncorrupt, daemon>>

NoQuery == [day |-> NoDate, from_time |-> NoTime, to_time |-> NoTime,
            var_type |-> "", var_name |-> ""]

\* the evtdbd process before its main block runs
NoDaemon == [state |-> "init", argv |-> <<>>, channels |-> <<>>, daos |-> <<>>,
             svc_objects |-> <<>>, files |-> <<>>, nsignals |-> 0]

\* no insert_event call yet, no get_events generator yet
NoData == [kind |-> "none", dict |-> {}, text |-> ""]
NoScan == [state |-> "none", from_time |-> NoTime, to_time |-> NoTime,
           var_type |-> "", var_name |-> "", scanned_days |-> <<>>, i |-> 0,
           evtfile |-> <<>>, rec_num |-> 0, fopen |-> <<>>, opened |-> <<>>,
           requests |-> 0, events |-> <<>>, src |-> <<>>]

(***************************************************************************)
(* Files.                                                                  *)
(***************************************************************************)
\* open(path, 'a'): the file is created when missing
fs_open(d, path) ==
    [n \in DOMAIN d \cup {path} |-> IF n \in DOMAIN d THEN d[n] ELSE <<>>]

\* file.flush() / file.close(): the buffered lines reach the file
fs_flush(d, h) == [d EXCEPT ![h.path] = @ \o h.buf]

\* the directory after the file object cf (None or a file) is closed
fs_close(d, cf) == IF cf = <<>> THEN d ELSE fs_flush(d, cf[1])

\* whether closing / flushing cf writes something
has_pending(cf) == cf # <<>> /\ cf[1].buf # <<>>

\* faulty variant: the current file is not closed before the next is opened
close_current_skipped(w, cf) == w

\* line 151, self._current_file.close(): the write handles left, w being the
\* handles open before (closing a closed file object does nothing)
close_current(w, cf) ==
    IF cf = <<>> \/ cf[1].closed THEN w
    ELSE SelectSeq(w, LAMBDA n : n # cf[1].path)

(***************************************************************************)
(* EventsDAO.__init__: the state after construction on a storage root that *)
(* holds the files files0.                                                 *)
(***************************************************************************)
dao_init(ro, flash, files0) ==
    /\ readonly = ro
    /\ current_file = <<>>
    /\ current_day = 0
    /\ flash_memory = flash
    /\ last_flush = 0
    /\ disk = files0
    /\ op = "__init__" /\ err = "ok" /\ query = NoQuery /\ result = <<>>
    /\ accepted = <<>> /\ last_phys = -1 /\ flushed = 0
    /\ nodes = [home |-> "dir", root |-> "dir"]
    /\ wopen = <<>> /\ caller_data = NoData /\ scan = NoScan
    /\ daemon = NoDaemon
    /\ ncalls = 0 /\ nticks = 0 /\ ncorrupt = 0

\* lines 78-103: the constructor, called once, on the paths as they are.
\* config is FALSE when the parameter is missing.  Only the steps before the
\* first mkdir can raise, so a failed call leaves the paths as they were.
init(config, ro, flash) ==
    LET failure == IF ~config THEN "ValueError"
                   ELSE IF nodes.home = "missing" /\ ro THEN "IOError"
                   ELSE IF nodes.home = "file" THEN "IOError"
                   ELSE "ok"
        \* lines 82-86: os.mkdir(dbhome)
        home1 == IF nodes.home = "missing" THEN "dir" ELSE nodes.home
        \* lines 93-95: os.mkdir(self._dbhome)
        root1 == IF nodes.root = "missing" THEN "dir" ELSE nodes.root
    IN /\ op = "start"
       /\ op' = "__init__" /\ err' = failure /\ result' = <<>>
       /\ query' = [config |-> config, readonly |-> ro, flash_memory |-> flash]
       /\ IF failure = "ok"
          THEN /\ nodes' = [home |-> home1, root |-> root1]
               /\ readonly' = ro
               /\ current_file' = <<>>
               /\ current_day' = 0
               /\ flash_memory' = flash
               /\ last_flush' = 0
          ELSE UNCHANGED <<nodes, dao>>
       /\ UNCHANGED <<disk, clock, accepted, last_phys, flushed, wopen,
                      caller_data, scan, ncalls, nticks, ncorrupt, daemon>>

(***************************************************************************)
(* EventsDAO.insert_event                                                  *)
(***************************************************************************)
\* line 149: "check if we have to open a new storage file"
needs_new_file(timestamp, cur_day) == timestamp.day # cur_day

\* faulty variant: the interval must be exceeded, not reached
must_flush_strict(flash, now, last) == ~flash \/ (now - last > MAX_FLUSH_AGE)

\* faulty variant: the throttle applies in default mode too
must_flush_throttled(flash, now, last) == now - last >= MAX_FLUSH_AGE

\* line 169: the flush policy
must_flush(flash, now, last) == ~flash \/ (now - last >= MAX_FLUSH_AGE)

\* lines 127-136: data as a dict, or the dict its JSON text stands for
data_dict_of(data) ==
    IF data.kind = "dict" THEN [ok |-> TRUE, dict |-> data.dict]
    ELSE IF json_loads_ok(data.text)
         THEN [ok |-> TRUE, dict |-> json_loads(data.text)]
         ELSE [ok |-> FALSE, dict |-> {}]

\* the arguments of a call
as_dict(d) == [kind |-> "dict", dict |-> d, text |-> ""]
as_text(t) == [kind |-> "str", dict |-> {}, text |-> t]

call(msecs, var_type, var_name, data) ==
    [msecs |-> msecs, var_type |-> var_type, var_name |-> var_name,
     data |-> data]

\* lines 110-113: assert msecs, var_type, var_name, data
args_asserted(msecs, var_type, var_name, data) ==
    /\ msecs # <<0, 0>>
    /\ var_type # ""
    /\ var_name # ""
    /\ IF data.kind = "dict" THEN data.dict # {} ELSE data.text # ""

\* the call ends before line 145: it returns (lines 136 and 143) or raises
\* (lines 110-113, 118); the caller's data object is as it was passed
insert_ends(how) ==
    /\ op' = "insert_event" /\ err' = how /\ result' = <<>>
    /\ caller_data' = query'.data
    /\ UNCHANGED <<dao, disk, clock, accepted, last_phys, nodes, wopen, scan,
                   flushed, nticks, ncorrupt, daemon>>

insert_dropped == insert_ends("ok")

\* faulty variant: the ValueError of json.loads is not caught
insert_malformed_raises == insert_ends("ValueError")

\* lines 133-136
insert_malformed == insert_dropped

\* faulty variant: the KeyError of data_dict[VALUE] is not caught
insert_no_value_raises == insert_ends("KeyError")

\* lines 141-143
insert_no_value == insert_dropped

\* lines 115-118
insert_refused == insert_ends("IOError")

\* line 152: open() raises IOError, after line 151 has closed the current
\* file; the handle keeps the closed file object and the day marker its day
insert_open_fails ==
    /\ disk' = fs_close(disk, current_file)
    /\ current_file' = IF current_file = <<>> THEN <<>>
                       ELSE <<[current_file[1] EXCEPT !.buf = <<>>,
                                                      !.closed = TRUE]>>
    /\ wopen' = close_current(wopen, current_file)
    /\ last_phys' = IF has_pending(current_file) THEN clock ELSE last_phys
    /\ op' = "insert_event" /\ err' = "IOError" /\ result' = <<>>
    /\ UNCHANGED <<readonly, flash_memory, current_day, last_flush, clock,
                   accepted, nodes, scan, flushed, nticks, ncorrupt, daemon>>

\* line 157: write() on a closed file object raises ValueError
insert_write_fails ==
    /\ op' = "insert_event" /\ err' = "ValueError" /\ result' = <<>>
    /\ UNCHANGED <<dao, disk, clock, accepted, last_phys, nodes, wopen, scan,
                   flushed, nticks, ncorrupt, daemon>>

\* lines 145-171, always_flush: the legacy copy flushes unconditionally.
\* data_dict is the caller's object when data is a dict (line 128), so the
\* del of line 145 removes the key from the caller's object.
insert_write(timestamp, var_type, var_name, data_dict, always_flush) ==
    LET value == dict_get(data_dict, "value")
        rest == dict_del(data_dict, "value")
        json_data == json_dumps(rest)
        switch == needs_new_file(timestamp, current_day)
        path == get_path_for_day(timestamp.year, timestamp.month, timestamp.day)
        disk1 == IF switch THEN fs_open(fs_close(disk, current_file), path)
                 ELSE disk
        file1 == IF switch THEN [path |-> path, buf |-> <<>>, closed |-> FALSE]
                 ELSE current_file[1]
        file2 == [file1 EXCEPT !.buf = @ \o encode_record(
                      timestamp, var_type, var_name, value, json_data)]
        now == clock
        fl == always_flush \/ must_flush(flash_memory, now, last_flush)
    IN /\ caller_data' = IF query'.data.kind = "dict" THEN as_dict(rest)
                         ELSE query'.data
       /\ IF switch /\ nodes.root # "dir" THEN insert_open_fails
          ELSE IF ~switch /\ current_file[1].closed THEN insert_write_fails
          ELSE
          /\ disk' = IF fl THEN fs_flush(disk1, file2) ELSE disk1
          /\ current_file' = << IF fl THEN [file2 EXCEPT !.buf = <<>>]
                                ELSE file2 >>
          /\ current_day' = IF switch THEN timestamp.day ELSE current_day
          /\ wopen' = IF switch
                      THEN Append(close_current(wopen, current_file), path)
                      ELSE wopen
          /\ last_flush' = IF fl THEN now ELSE last_flush
          /\ last_phys' = IF fl \/ (switch /\ has_pending(current_file))
                          THEN now ELSE last_phys
          /\ accepted' = Append(accepted, make_timed_event(
                             timestamp, var_type, var_name, value, rest))
          /\ op' = "insert_event" /\ err' = "ok" /\ result' = <<>>
          /\ UNCHANGED <<readonly, flash_memory, clock, nodes, scan, flushed,
                         nticks, ncorrupt, daemon>>

insert_body(msecs, var_type, var_name, data, always_flush) ==
    LET timestamp == utcfromtimestamp(msecs)
        parsed == data_dict_of(data)
    IN IF ~parsed.ok THEN insert_malformed
       ELSE IF ~has_key(parsed.dict, "value") THEN insert_no_value
       ELSE insert_write(timestamp, var_type, var_name, parsed.dict,
                         always_flush)

\* faulty variant: the read-only test of lines 115-118 is missing
insert_event_unchecked(msecs, var_type, var_name, data) ==
    /\ ncalls < MaxEvents
    /\ ncalls' = ncalls + 1
    /\ query' = call(msecs, var_type, var_name, data)
    /\ IF ~args_asserted(msecs, var_type, var_name, data)
       THEN insert_ends("AssertionError")
       ELSE insert_body(msecs, var_type, var_name, data, FALSE)

insert_event(msecs, var_type, var_name, data) ==
    /\ ncalls < MaxEvents
    /\ ncalls' = ncalls + 1
    /\ query' = call(msecs, var_type, var_name, data)
    /\ IF ~args_asserted(msecs, var_type, var_name, data)
       THEN insert_ends("AssertionError")
       ELSE IF readonly THEN insert_refused
       ELSE insert_body(msecs, var_type, var_name, data, FALSE)

\* the copy of the DAO in src/evtdao/fsys: no flash memory mode
legacy_insert_event(msecs, var_type, var_name, data) ==
    /\ ~flash_memory
    /\ ncalls < MaxEvents
    /\ ncalls' = ncalls + 1
    /\ query' = call(msecs, var_type, var_name, data)
    /\ IF ~args_asserted(msecs, var_type, var_name, data)
       THEN insert_ends("AssertionError")
       ELSE IF readonly THEN insert_refused
       ELSE insert_body(msecs, var_type, var_name, data, TRUE)

(***************************************************************************)
(* EventsDAO.flush                                                         *)
(***************************************************************************)
\* faulty variant: the method is not overridden (AbstractDAO.flush: pass)
flush_not_overridden ==
    /\ op' = "flush" /\ err' = "ok" /\ query' = NoQuery /\ result' = <<>>
    /\ flushed' = Len(accepted)
    /\ UNCHANGED <<dao, disk, clock, accepted, last_phys, nodes, wopen,
                   caller_data, scan, ncalls, nticks,
                   ncorrupt, daemon>>

\* lines 176-180; flush() of a closed file object raises ValueError
flush ==
    /\ IF current_file # <<>> /\ current_file[1].closed
       THEN /\ err' = "ValueError"
            /\ UNCHANGED <<disk, current_file, last_phys, flushed>>
       ELSE /\ err' = "ok"
            /\ flushed' = Len(accepted)
            /\ IF current_file # <<>>
               THEN /\ disk' = fs_flush(disk, current_file[1])
                    /\ current_file' = <<[current_file[1] EXCEPT !.buf = <<>>]>>
                    /\ last_phys' = IF has_pending(current_file) THEN clock
                                    ELSE last_phys
               ELSE UNCHANGED <<disk, current_file, last_phys>>
    /\ op' = "flush" /\ query' = NoQuery /\ result' = <<>>
    /\ UNCHANGED <<readonly, flash_memory, current_day, last_flush, clock,
                   accepted, nodes, wopen, caller_data, scan, ncalls, nticks,
                   ncorrupt, daemon>>

(***************************************************************************)
(* close: EventsDAO does not override it, the method of AbstractDAO runs   *)
(* (base.py, lines 228-233: pass).                                         *)
(***************************************************************************)
close ==
    /\ op' = "close" /\ err' = "ok" /\ query' = NoQuery /\ result' = <<>>
    /\ UNCHANGED <<dao, disk, clock, accepted, last_phys, nodes, wopen,
                   caller_data, scan, flushed,
                   ncalls, nticks, ncorrupt, daemon>>

(***************************************************************************)
(* The wall clock advances between two calls.                              *)
(***************************************************************************)
Tick(d) ==
    /\ nticks < MaxTicks
    /\ nticks' = nticks + 1
    /\ clock' = clock + d
    /\ UNCHANGED <<dao, disk, obs, accepted, last_phys, nodes, wopen,
                   caller_data, scan, flushed,
                   ncalls, ncorrupt, daemon>>

(***************************************************************************)
(* The storage root stops, or starts again, accepting the open() of line   *)
(* 152 (permission, disk full, directory moved): open raises IOError while *)
(* the root is "denied".                                                   *)
(***************************************************************************)
open_fault ==
    /\ nodes' = [nodes EXCEPT !.root = IF @ = "dir" THEN "denied" ELSE "dir"]
    /\ UNCHANGED <<dao, disk, clock, obs, accepted, last_phys, wopen,
                   caller_data, scan, flushed, ncalls, nticks, ncorrupt,
                   daemon>>

(***************************************************************************)
(* EventsDAO.get_available_days                                            *)
(***************************************************************************)
RECURSIVE sorted(_)
\* sorted(names): the names "yymmdd.evt-log" in string order
sorted(S) ==
    IF S = {} THEN <<>>
    ELSE LET m == CHOOSE x \in S : \A y \in S : x = y \/ lex_less(x, y)
         IN <<m>> \o sorted(S \ {m})

\* lines 189-194: month is <<>> (None) or the tuple <<year, month>>
month_selects(name, month) ==
    IF month = <<>> THEN TRUE
    ELSE LET yy == IF month[1] > 2000 THEN month[1] - 2000 ELSE month[1]
         IN name[1] = yy /\ name[2] = month[2]

RECURSIVE map_date_of_name(_)
map_date_of_name(names) ==
    IF names = <<>> THEN <<>>
    ELSE <<date_of_name(Head(names))>> \o map_date_of_name(Tail(names))

available_days(d, month) ==
    map_date_of_name(SelectSeq(sorted(DOMAIN d),
                               LAMBDA n : month_selects(n, month)))

get_available_days(month) ==
    /\ op' = "get_available_days" /\ err' = "ok"
    /\ query' = [month |-> month]
    /\ result' = available_days(disk, month)
    /\ UNCHANGED <<dao, disk, clock, accepted, last_phys, nodes, wopen,
                   caller_data, scan, flushed,
                   ncalls, nticks, ncorrupt, daemon>>

\* str(day) of a datetime.date: the text "YYYY-MM-DD"
date_str(d) == [yyyy |-> d[1], mm |-> d[2], dd |-> d[3]]

RECURSIVE map_date_str(_)
map_date_str(days) ==
    IF days = <<>> THEN <<>>
    ELSE <<date_str(Head(days))>> \o map_date_str(Tail(days))

\* EventDatabaseObject.get_available_days (evtdb.py, lines 132-153)
svc_get_available_days(year, month) ==
    LET time_line_filter == IF year # 0 THEN <<year, month>> ELSE <<>>
    IN /\ op' = "svc.get_available_days" /\ err' = "ok"
       /\ query' = [year |-> year, month |-> month]
       /\ result' = map_date_str(available_days(disk, time_line_filter))
       /\ UNCHANGED <<dao, disk, clock, accepted, last_phys, nodes, wopen,
                      caller_data, scan, flushed,
                      ncalls, nticks, ncorrupt, daemon>>

(***************************************************************************)
(* EventsDAO.get_events_for_day                                            *)
(***************************************************************************)
\* What the loop body does with one record (lines 216-240):
\*   "corrupt" the record is logged and ignored, "skip" it is filtered out,
\*   "yield" its event is yielded, "ValueError" the exception leaves the loop.
\* tolerant is TRUE for the try/except blocks of the current DAO and FALSE
\* for the copy in src/evtdao/fsys, which has none.
record_outcome(record, var_type, var_name, tolerant) ==
    LET bad == IF tolerant THEN "corrupt" ELSE "ValueError"
    IN IF Len(record) # 5 THEN bad
       ELSE IF ~strptime_ok(record[1]) THEN bad
       ELSE IF var_type # "" /\ record[2] # var_type THEN "skip"
       ELSE IF var_name # "" /\ var_name # record[3] THEN "skip"
       ELSE IF ~json_loads_ok(record[5]) THEN bad
       ELSE "yield"

\* lines 236-240: rec_value is the text of the fourth field
event_of_record(record) ==
    make_timed_event(strptime(record[1]), record[2], record[3],
                     [type |-> "str", repr |-> record[4]],
                     json_loads(record[5]))

RECURSIVE scan_records(_, _, _, _)
\* the events yielded for the lines of one file, and how the iteration ends
scan_records(lines, var_type, var_name, tolerant) ==
    IF lines = <<>> THEN [events |-> <<>>, err |-> "ok"]
    ELSE LET o == record_outcome(Head(lines), var_type, var_name, tolerant)
             rest == scan_records(Tail(lines), var_type, var_name, tolerant)
         IN IF o = "ValueError" THEN [events |-> <<>>, err |-> "ValueError"]
            ELSE IF o = "yield"
                 THEN [rest EXCEPT !.events = <<event_of_record(Head(lines))>> \o @]
                 ELSE rest

\* lines 202-243; day is the date <<yyyy, mm, dd>> (given as a date or as the
\* first 10 characters of a string).  A missing file: IOError, logged.
\* faulty variant: the IOError of open() is not caught
events_for_day_uncaught(d, day, var_type, var_name, tolerant) ==
    LET fpath == get_path_for_day(day[1], day[2], day[3])
    IN IF fpath \notin DOMAIN d THEN [events |-> <<>>, err |-> "IOError"]
       ELSE scan_records(d[fpath], var_type, var_name, tolerant)

events_for_day(d, day, var_type, var_name, tolerant) ==
    LET fpath == get_path_for_day(day[1], day[2], day[3])
    IN IF fpath \notin DOMAIN d THEN [events |-> <<>>, err |-> "ok"]
       ELSE scan_records(d[fpath], var_type, var_name, tolerant)

get_events_for_day(day, var_type, var_name) ==
    LET r == events_for_day(disk, day, var_type, var_name, TRUE)
    IN /\ op' = "get_events_for_day"
       /\ query' = [NoQuery EXCEPT !.day = day, !.var_type = var_type,
                                   !.var_name = var_name]
       /\ result' = r.events
       /\ err' = r.err
       /\ UNCHANGED <<dao, disk, clock, accepted, last_phys, nodes, wopen,
                      caller_data, scan, flushed,
                      ncalls, nticks, ncorrupt, daemon>>

\* src/evtdao/fsys/dao_fsys.py, lines 174-207
legacy_get_events_for_day(day, var_type, var_name) ==
    LET r == events_for_day(disk, day, var_type, var_name, FALSE)
    IN /\ op' = "legacy_get_events_for_day"
       /\ query' = [NoQuery EXCEPT !.day = day, !.var_type = var_type,
                                   !.var_name = var_name]
       /\ result' = r.events
       /\ err' = r.err
       /\ UNCHANGED <<dao, disk, clock, accepted, last_phys, nodes, wopen,
                      caller_data, scan, flushed,
                      ncalls, nticks, ncorrupt, daemon>>

(***************************************************************************)
(* EventsDAO.get_events                                                    *)
(***************************************************************************)
\* lines 249-260
scanned_days_of(d, from_time, to_time) ==
    LET from_day == IF from_time # NoTime THEN date_of(from_time) ELSE NoDate
        to_day == IF to_time # NoTime THEN date_of(to_time) ELSE NoDate
    IN IF from_day # NoDate \/ to_day # NoDate
       THEN SelectSeq(available_days(d, <<>>),
                      LAMBDA day : /\ (from_day = NoDate \/ date_le(from_day, day))
                                   /\ (to_day = NoDate \/ date_le(day, to_day)))
       ELSE available_days(d, <<>>)

\* faulty variant: the two bounds are applied to the events of every day
in_time_bounds_every_day(event, day, scanned_days, from_time, to_time) ==
    /\ ~(from_time # NoTime /\ dt_lt(event.timestamp, from_time))
    /\ ~(to_time # NoTime /\ dt_lt(to_time, event.timestamp))

\* lines 265-271: the trimming at the two ends of the scan
in_time_bounds(event, day, scanned_days, from_time, to_time) ==
    /\ ~(/\ from_time # NoTime
         /\ day = scanned_days[1]
         /\ dt_lt(event.timestamp, from_time))
    /\ ~(/\ to_time # NoTime
         /\ day = scanned_days[Len(scanned_days)]
         /\ dt_lt(to_time, event.timestamp))

\* faulty variant: var_type is ignored when var_name is provided
event_matches_name_first(event, var_type, var_name) ==
    IF var_name # "" THEN event.var_name = var_name
    ELSE ~(var_type # "" /\ event.var_type # var_type)

\* lines 272-275
event_matches(event, var_type, var_name) ==
    /\ ~(var_type # "" /\ event.var_type # var_type)
    /\ ~(var_name # "" /\ event.var_name # var_name)

RECURSIVE scan_days(_, _, _, _, _, _, _)
\* lines 262-277: the loop over scanned_days, from its i-th day on
scan_days(d, scanned_days, i, from_time, to_time, var_type, var_name) ==
    IF i > Len(scanned_days) THEN [events |-> <<>>, err |-> "ok"]
    ELSE LET day == scanned_days[i]
             r == events_for_day(d, day, "", "", TRUE)
             kept == SelectSeq(r.events, LAMBDA event :
                        /\ in_time_bounds(event, day, scanned_days, from_time,
                                          to_time)
                        /\ event_matches(event, var_type, var_name))
         IN IF r.err # "ok" THEN [events |-> kept, err |-> r.err]
            ELSE LET rest == scan_days(d, scanned_days, i + 1, from_time,
                                       to_time, var_type, var_name)
                 IN [rest EXCEPT !.events = kept \o @]

events_between(d, from_time, to_time, var_type, var_name) ==
    scan_days(d, scanned_days_of(d, from_time, to_time), 1, from_time, to_time,
              var_type, var_name)

get_events(from_time, to_time, var_type, var_name) ==
    LET r == events_between(disk, from_time, to_time, var_type, var_name)
    IN /\ op' = "get_events"
       /\ query' = [NoQuery EXCEPT !.from_time = from_time,
                                   !.to_time = to_time,
                                   !.var_type = var_type,
                                   !.var_name = var_name]
       /\ result' = r.events
       /\ err' = r.err
       /\ UNCHANGED <<dao, disk, clock, accepted, last_phys, nodes, wopen,
                      caller_data, scan, flushed,
                      ncalls, nticks, ncorrupt, daemon>>

\* get_events() of a second DAO, opened read-only on the same storage root:
\* it reads the files, never the buffer of the writer's file object
reader_get_events(from_time, to_time, var_type, var_name) ==
    LET r == events_between(disk, from_time, to_time, var_type, var_name)
    IN /\ op' = "reader.get_events"
       /\ query' = [NoQuery EXCEPT !.from_time = from_time,
                                   !.to_time = to_time,
                                   !.var_type = var_type,
                                   !.var_name = var_name]
       /\ result' = r.events
       /\ err' = r.err
       /\ UNCHANGED <<dao, disk, clock, accepted, last_phys, nodes, wopen,
                      caller_data, scan, flushed,
                      ncalls, nticks, ncorrupt, daemon>>

(***************************************************************************)
(* EventsDAO.get_events as the generator it is, one step at a time.  scan  *)
(* is the generator object: its arguments, its position (the i-th scanned  *)
(* day, rec_num records read from evtfile), the files it holds open for    *)
(* reading (fopen) and, for the properties, the files it has opened so     *)
(* far, the number of next() calls of its consumer, the events it has      *)
(* yielded and the file each one was read from.                            *)
(***************************************************************************)
\* faulty variant: leaving the with block does not close the file
with_exit_skipped(fo, fpath) == fo

\* line 212, the end of "with open(fpath) as evtfile": the file is closed
with_exit(fo, fpath) == SelectSeq(fo, LAMBDA n : n # fpath)

\* line 245: the call creates the generator and runs none of its code
scan_call(from_time, to_time, var_type, var_name) ==
    /\ scan.state \in {"none", "done", "dropped"}
    /\ scan' = [NoScan EXCEPT !.state = "created", !.from_time = from_time,
                              !.to_time = to_time, !.var_type = var_type,
                              !.var_name = var_name]
    /\ UNCHANGED <<dao, disk, clock, obs, accepted, last_phys, nodes, wopen,
                   caller_data, flushed, ncalls, nticks, ncorrupt, daemon>>

\* the consumer asks for the next event; the first request runs lines
\* 247-260, which list the directory and open no file
scan_next ==
    /\ scan.state \in {"created", "suspended"}
    /\ scan' = IF scan.state = "created"
               THEN [scan EXCEPT !.state = "running", !.requests = @ + 1,
                                 !.scanned_days = scanned_days_of(
                                     disk, scan.from_time, scan.to_time),
                                 !.i = 1]
               ELSE [scan EXCEPT !.state = "running", !.requests = @ + 1]
    /\ UNCHANGED <<dao, disk, clock, obs, accepted, last_phys, nodes, wopen,
                   caller_data, flushed, ncalls, nticks, ncorrupt, daemon>>

\* lines 262-264 and 210-213: the loop takes its next day and opens its
\* file; a missing file is an IOError, logged (lines 242-243)
scan_open ==
    /\ scan.state = "running" /\ scan.evtfile = <<>>
    /\ scan.i <= Len(scan.scanned_days)
    /\ LET day == scan.scanned_days[scan.i]
           fpath == get_path_for_day(day[1], day[2], day[3])
       IN scan' = IF fpath \notin DOMAIN disk
                  THEN [scan EXCEPT !.i = @ + 1]
                  ELSE [scan EXCEPT !.evtfile = <<fpath>>, !.rec_num = 0,
                                    !.fopen = Append(@, fpath),
                                    !.opened = Append(@, fpath)]
    /\ UNCHANGED <<dao, disk, clock, obs, accepted, last_phys, nodes, wopen,
                   caller_data, flushed, ncalls, nticks, ncorrupt, daemon>>

\* lines 214-240 and 265-277: one record of the open file is read; its
\* event is yielded if it passes the trimming and the filters
scan_record ==
    /\ scan.state = "running" /\ scan.evtfile # <<>>
    /\ scan.rec_num < Len(disk[scan.evtfile[1]])
    /\ LET record == disk[scan.evtfile[1]][scan.rec_num + 1]
           day == scan.scanned_days[scan.i]
           yields == /\ record_outcome(record, "", "", TRUE) = "yield"
                     /\ in_time_bounds(event_of_record(record), day,
                                       scan.scanned_days, scan.from_time,
                                       scan.to_time)
                     /\ event_matches(event_of_record(record), scan.var_type,
                                      scan.var_name)
       IN scan' = IF yields
                  THEN [scan EXCEPT !.rec_num = @ + 1, !.state = "suspended",
                                    !.events = Append(@, event_of_record(record)),
                                    !.src = Append(@, scan.evtfile[1])]
                  ELSE [scan EXCEPT !.rec_num = @ + 1]
    /\ UNCHANGED <<dao, disk, clock, obs, accepted, last_phys, nodes, wopen,
                   caller_data, flushed, ncalls, nticks, ncorrupt, daemon>>

\* line 214 at the end of the file: the with block is left, the file closed
scan_eof ==
    /\ scan.state = "running" /\ scan.evtfile # <<>>
    /\ scan.rec_num >= Len(disk[scan.evtfile[1]])
    /\ scan' = [scan EXCEPT !.fopen = with_exit(@, scan.evtfile[1]),
                            !.evtfile = <<>>, !.i = @ + 1]
    /\ UNCHANGED <<dao, disk, clock, obs, accepted, last_phys, nodes, wopen,
                   caller_data, flushed, ncalls, nticks, ncorrupt, daemon>>

\* line 262 after the last day: the generator is exhausted
scan_end ==
    /\ scan.state = "running" /\ scan.evtfile = <<>>
    /\ scan.i > Len(scan.scanned_days)
    /\ scan' = [scan EXCEPT !.state = "done"]
    /\ UNCHANGED <<dao, disk, clock, obs, accepted, last_phys, nodes, wopen,
                   caller_data, flushed, ncalls, nticks, ncorrupt, daemon>>

\* the consumer stops iterating: the generator is closed where it is
\* suspended (the yield of line 236 under the one of line 277), which
\* leaves the with block of line 212
scan_drop ==
    /\ scan.state \in {"created", "suspended"}
    /\ scan' = [scan EXCEPT !.state = "dropped", !.evtfile = <<>>,
                            !.fopen = IF scan.evtfile = <<>> THEN @
                                      ELSE with_exit(@, scan.evtfile[1])]
    /\ UNCHANGED <<dao, disk, clock, obs, accepted, last_phys, nodes, wopen,
                   caller_data, flushed, ncalls, nticks, ncorrupt, daemon>>

(***************************************************************************)
(* The daemon, src/bin/evtdbd.py: one DAO and one service object for each  *)
(* channel of the command line.  A DAO is identified by its place in the   *)
(* list daos; files maps each storage root to what was appended under it,  *)
(* every line with the channel of its signal and the DAO that wrote it.    *)
(***************************************************************************)
SENSOR_EVENT_CHANNEL == "sensor"
SYSMON_EVENT_CHANNEL == "sysmon"
FRAMEWORK_EVENT_CHANNEL == "framework"
DB_HOME == "events"

\* str.lower() on the words of the model
lower(s) ==
    CASE s = "Sensor" -> "sensor"
      [] s = "SYSMON" -> "sysmon"
      [] OTHER -> s

\* lines 41-48: the argparse type of the channels; FALSE: ArgumentTypeError
event_channel_name_ok(s) ==
    lower(s) \in {SENSOR_EVENT_CHANNEL, SYSMON_EVENT_CHANNEL,
                  FRAMEWORK_EVENT_CHANNEL}

RECURSIVE map_lower(_)
\* args.channels: every argument through _event_channel_name
map_lower(argv) ==
    IF argv = <<>> THEN <<>>
    ELSE <<lower(Head(argv))>> \o map_lower(Tail(argv))

set_of(l) == {l[k] : k \in DOMAIN l}

RECURSIVE lists_of(_)
\* list(S): the elements of the set S once each; the order is whatever the
\* hashing of the build gives
lists_of(S) ==
    IF S = {} THEN {<<>>}
    ELSE UNION {{<<x>> \o l : l \in lists_of(S \ {x})} : x \in S}

\* faulty variant: the duplicates are kept
channel_lists_duplicated(channels) ==
    IF channels # <<>> THEN {channels} ELSE {<<SENSOR_EVENT_CHANNEL>>}

\* line 70: the lists channels may be
channel_lists(channels) ==
    IF channels # <<>> THEN lists_of(set_of(channels))
    ELSE {<<SENSOR_EVENT_CHANNEL>>}

\* dao_fsys.py line 93: self._dbhome = os.path.join(dbhome, events_channel)
storage_root(dbhome, events_channel) == <<dbhome, events_channel>>

\* get_dao(DAO_name, ch, config=config), base.py lines 64-116: readonly has
\* its default, False
get_dao(events_channel, config) ==
    [dbhome |-> storage_root(DB_HOME, events_channel), readonly |-> FALSE,
     flash_memory |-> config.flash_memory]

\* line 78
daos_of(channels, config) ==
    [k \in DOMAIN channels |->
        [channel |-> channels[k], dao |-> get_dao(channels[k], config)]]

\* evtdb.py lines 77-79 and 90-97: one EventDatabaseObject for each pair,
\* holding the channel and the DAO of the pair
svc_objects_of(daos) ==
    [k \in DOMAIN daos |->
        [channel |-> daos[k].channel, dao |-> k, path |-> <<"/", daos[k].channel>>]]

\* lines 50-80: the main block up to the creation of the service
main(argv, flash) ==
    /\ daemon.state = "init"
    /\ IF \E k \in DOMAIN argv : ~event_channel_name_ok(argv[k])
       THEN daemon' = [daemon EXCEPT !.state = "exit", !.argv = argv]
       ELSE \E channels \in channel_lists(map_lower(argv)) :
               LET config == [flash_memory |-> flash]
                   daos == daos_of(channels, config)
                   roots == {daos[k].dao.dbhome : k \in DOMAIN daos}
               IN daemon' = [daemon EXCEPT
                      !.state = "created", !.argv = argv,
                      !.channels = channels, !.daos = daos,
                      !.svc_objects = svc_objects_of(daos),
                      !.files = [r \in roots |-> <<>>]]
    /\ UNCHANGED <<dao, disk, clock, obs, accepted, last_phys, nodes, wopen,
                   caller_data, scan, flushed, ncalls, nticks, ncorrupt>>

\* evtdbd.py line 83 and evtdb.py lines 107-121: every service object
\* connects its handler to the event manager object of its own channel
svc_start ==
    /\ daemon.state = "created"
    /\ daemon' = [daemon EXCEPT !.state = "running"]
    /\ UNCHANGED <<dao, disk, clock, obs, accepted, last_phys, nodes, wopen,
                   caller_data, scan, flushed, ncalls, nticks, ncorrupt>>

RECURSIVE handled(_, _, _, _, _)
\* evtdb.py lines 101-105: the handlers of the service objects from the k-th
\* on run for a signal of channel; each inserts through its own DAO
handled(files, svc_objects, daos, k, channel) ==
    IF k > Len(svc_objects) THEN files
    ELSE LET so == svc_objects[k]
             root == daos[so.dao].dao.dbhome
             files1 == IF so.channel = channel
                       THEN [files EXCEPT ![root] = Append(@,
                                [channel |-> channel, dao |-> so.dao])]
                       ELSE files
         IN handled(files1, svc_objects, daos, k + 1, channel)

\* the event manager object of a channel emits onCSTBoxEvent
event_signal(channel) ==
    /\ daemon.state = "running"
    /\ daemon.nsignals < MaxSignals
    /\ daemon' = [daemon EXCEPT
           !.nsignals = @ + 1,
           !.files = handled(@, daemon.svc_objects, daemon.daos, 1, channel)]
    /\ UNCHANGED <<dao, disk, clock, obs, accepted, last_phys, nodes, wopen,
                   caller_data, scan, flushed, ncalls, nticks, ncorrupt>>

(***************************************************************************)
(* Inputs of the model.                                                    *)
(***************************************************************************)
T_JAN5_NOON == <<19727, 43200000>>   \* 2024-01-05 12:00:00.000
T_JAN5_LATE == <<19727, 86399000>>   \* 2024-01-05 23:59:59.000
T_JAN6 == <<19728, 1000>>            \* 2024-01-06 00:00:01.000
T_FEB5 == <<19758, 43200000>>        \* 2024-02-05 12:00:00.000
T_FEB6 == <<19759, 1000>>            \* 2024-02-06 00:00:01.000
T_EPOCH == <<0, 1000>>               \* 1970-01-01 00:00:01.000

StoreInputs ==
    { call(T_JAN5_NOON, "humidity", "t1", as_dict(VALUE_21)),
      call(T_JAN5_LATE, "temperature", "t1", as_dict(VALUE_21 \cup UNIT_C)),
      call(T_JAN6, "temperature", "t2", as_dict(VALUE_21)),
      call(T_FEB5, "humidity", "t1", as_text("{\"value\": \"on\"}")),
      call(T_FEB6, "temperature", "t1", as_dict(VALUE_ON)),
      call(T_EPOCH, "humidity", "h1", as_dict(VALUE_21)) }

FlushInputs ==
    { call(T_JAN5_LATE, "temperature", "t1", as_dict(VALUE_21 \cup UNIT_C)),
      call(T_JAN6, "temperature", "t2", as_dict(VALUE_21)),
      call(T_FEB5, "humidity", "t1", as_dict(VALUE_ON)) }

CorruptInputs ==
    { call(T_JAN5_NOON, "humidity", "t1", as_dict(VALUE_21)),
      call(T_JAN5_LATE, "temperature", "t1", as_dict(VALUE_21 \cup UNIT_C)),
      call(T_JAN6, "temperature", "t2", as_dict(VALUE_21)) }

\* events of five days, each with its own day of month, in three years
T_Y2K == <<10963, 43200000>>         \* 2000-01-07 12:00:00.000
T_FEB8 == <<19761, 43200000>>        \* 2024-02-08 12:00:00.000
DaysInputs ==
    {call(t, "temperature", "t1", as_dict(VALUE_21)) :
        t \in {T_JAN5_NOON, T_JAN6, T_FEB8, T_EPOCH, T_Y2K}}
MonthFilters ==
    {<<>>, <<0, 1>>, <<2000, 1>>, <<24, 1>>, <<2024, 1>>, <<24, 2>>,
     <<2024, 2>>, <<70, 1>>, <<2070, 1>>}

\* events of one day whose values are a number and strings, two of them
\* with a control character
VALUE_EMPTY == {<<"value", [type |-> "str", repr |-> ""]>>}
VALUE_TAB == {<<"value", [type |-> "str", repr |-> "a\tb"]>>}
VALUE_NL == {<<"value", [type |-> "str", repr |-> "a\nb"]>>}
RecordInputs ==
    {call(T_JAN5_NOON, "temperature", "t1", as_dict(v \cup m)) :
        v \in {VALUE_21, VALUE_ON, VALUE_EMPTY, VALUE_TAB, VALUE_NL},
        m \in {{}, UNIT_C}}

\* calls whose data is damaged, has no value, or is empty
MalformedTexts == {"{\"unit\": ", "not json"}
NoValueData == {as_dict(UNIT_C), as_text("{\"unit\": \"C\"}"), as_text("{}")}
DropInputs ==
    {call(T_JAN6, "temperature", "t1", as_text(t)) : t \in MalformedTexts}
    \cup {call(T_JAN6, "temperature", "t1", d) : d \in NoValueData}
    \cup {call(T_JAN6, "temperature", "t1", as_dict({}))}

QueryDays == {date_of(utcfromtimestamp(i.msecs)) : i \in StoreInputs}
             \cup {<<2024, 1, 7>>}

BoundTimes == {utcfromtimestamp(m) : m \in {T_JAN5_LATE, T_FEB5, T_FEB6}}
QueryTimes == {NoTime} \cup BoundTimes
              \cup {plus_1us(t) : t \in BoundTimes}
              \cup {minus_1us(t) : t \in BoundTimes}
FilterTimes == {NoTime, utcfromtimestamp(T_JAN5_LATE), utcfromtimestamp(T_FEB6)}
VarTypes == {"", "temperature", "humidity"}
VarNames == {"", "t1", "t2"}

\* a storage root left by an earlier run
EmptyRoot == [n \in {} |-> <<>>]
PopulatedRoot ==
    [n \in {<<24, 1, 4>>} |->
        << <<[yy |-> 24, mm |-> 1, dd |-> 4, HH |-> 8, MM |-> 0, SS |-> 0,
              f |-> 0], "temperature", "t1", "20.0", "{}">> >>]

BootClocks == {0, 1700000000}

\* lines damaged outside the program (a write cut by a power loss, ...)
GOOD_TS == strftime(utcfromtimestamp(T_JAN5_NOON))
DamagedLines ==
    { <<GOOD_TS, "temperature", "t1", "21.5">>,
      <<GOOD_TS, "temperature", "t1", "21.5", "{}", "{}">>,
      <<[GOOD_TS EXCEPT !.mm = 13], "temperature", "t1", "21.5", "{}">>,
      <<GOOD_TS, "temperature", "t1", "21.5", "{\"unit\": ">> }

corrupt(name, line) ==
    /\ ncorrupt < MaxCorrupt
    /\ ncorrupt' = ncorrupt + 1
    /\ disk' = [fs_open(disk, name) EXCEPT ![name] = Append(@, line)]
    /\ UNCHANGED <<dao, clock, obs, accepted, last_phys, nodes, wopen,
                   caller_data, scan, flushed,
                   ncalls, nticks, daemon>>

(***************************************************************************)
(* Specifications.                                                         *)
(***************************************************************************)
\* one writer in default mode on a new storage root, and its queries
InitStore == dao_init(FALSE, FALSE, EmptyRoot) /\ clock = 1700000000

DoInsert(S) ==
    \E i \in S : insert_event(i.msecs, i.var_type, i.var_name, i.data)
DoLegacyInsert(S) ==
    \E i \in S : legacy_insert_event(i.msecs, i.var_type, i.var_name, i.data)
\* A query changes nothing but the observation of the last call, so a query
\* that follows a query reaches no new state of the store: each query is
\* explored from the states the other calls leave.
QueryOps == {"get_events_for_day", "legacy_get_events_for_day", "get_events",
             "get_available_days", "svc.get_available_days"}
DoGetEventsForDay ==
    /\ op \notin QueryOps
    /\ \E day \in QueryDays : get_events_for_day(day, "", "")
DoLegacyGetEventsForDay ==
    /\ op \notin QueryOps
    /\ \E day \in QueryDays : legacy_get_events_for_day(day, "", "")
DoGetEvents ==
    /\ op \notin QueryOps
    /\ \/ \E f \in QueryTimes, t \in QueryTimes : get_events(f, t, "", "")
       \/ \E f \in FilterTimes, t \in FilterTimes, vt \in VarTypes,
             vn \in VarNames : get_events(f, t, vt, vn)
DoTick == \E d \in {3599, 3600} : Tick(d)
DoCorrupt ==
    \E name \in DOMAIN disk \cup {<<24, 1, 5>>}, line \in DamagedLines :
        corrupt(name, line)

NextStore ==
    \/ DoInsert(StoreInputs)
    \/ DoGetEventsForDay
    \/ DoGetEvents
SpecStore == InitStore /\ [][NextStore]_vars

\* a DAO in either mode, read-only or not, the clock and the explicit flush
InitFlush ==
    \E ro \in BOOLEAN, flash \in BOOLEAN, files0 \in {EmptyRoot, PopulatedRoot} :
        /\ dao_init(ro, flash, files0)
        /\ clock \in BootClocks
NextFlush ==
    \/ DoInsert(FlushInputs)
    \/ DoLegacyInsert(FlushInputs)
    \/ flush
    \/ close
    \/ DoTick
SpecFlush == InitFlush /\ [][NextFlush]_vars

\* a writer and the list of the days it has files for
DoGetAvailableDays ==
    /\ op \notin QueryOps
    /\ \E month \in MonthFilters : get_available_days(month)
DoSvcGetAvailableDays ==
    /\ op \notin QueryOps
    /\ \E year \in {0, 24, 2024}, month \in {0, 1, 2} :
          svc_get_available_days(year, month)
NextDays ==
    \/ DoInsert(DaysInputs)
    \/ DoGetAvailableDays
    \/ DoSvcGetAvailableDays
SpecDays == InitStore /\ [][NextDays]_vars

\* a writer in either mode, its explicit flush, and a reader of its files
InitShared ==
    \E flash \in BOOLEAN :
        dao_init(FALSE, flash, EmptyRoot) /\ clock \in BootClocks
DoReaderGetEvents ==
    /\ op # "reader.get_events"
    /\ \E vt \in {"", "temperature"} : reader_get_events(NoTime, NoTime, vt, "")
NextShared ==
    \/ DoInsert(FlushInputs)
    \/ flush
    \/ DoTick
    \/ DoReaderGetEvents
SpecShared == InitShared /\ [][NextShared]_vars

\* a writer and the records of one day read back
NextRecord ==
    \/ DoInsert(RecordInputs)
    \/ DoGetEventsForDay
SpecRecord == InitStore /\ [][NextRecord]_vars

\* a writer in either mode and the calls it drops
InitDrop ==
    \E ro \in BOOLEAN, flash \in BOOLEAN :
        dao_init(ro, flash, EmptyRoot) /\ clock \in BootClocks
NextDrop ==
    \/ DoInsert(FlushInputs \cup DropInputs)
    \/ DoGetEventsForDay
    \/ DoTick
SpecDrop == InitDrop /\ [][NextDrop]_vars

\* the constructor on any layout of the two paths, and the calls that follow
NodeKinds == {"missing", "file", "dir"}
NodeStates ==
    {n \in [home : NodeKinds, root : NodeKinds] :
        n.home # "dir" => n.root = "missing"}
InitOpen ==
    /\ readonly = FALSE /\ flash_memory = FALSE
    /\ current_file = <<>> /\ current_day = 0 /\ last_flush = 0
    /\ disk = EmptyRoot /\ clock = 1700000000
    /\ nodes \in NodeStates
    /\ op = "start" /\ err = "ok" /\ query = NoQuery /\ result = <<>>
    /\ accepted = <<>> /\ last_phys = -1 /\ flushed = 0
    /\ wopen = <<>> /\ caller_data = NoData /\ scan = NoScan
    /\ daemon = NoDaemon
    /\ ncalls = 0 /\ nticks = 0 /\ ncorrupt = 0
constructed == op # "start" /\ ~(op = "__init__" /\ err # "ok")
NextOpen ==
    \/ \E config \in BOOLEAN, ro \in BOOLEAN, flash \in BOOLEAN :
          init(config, ro, flash)
    \/ constructed /\ DoInsert(FlushInputs)
    \/ constructed /\ flush
    \/ constructed /\ DoTick
SpecOpen == InitOpen /\ [][NextOpen]_vars

\* a writer whose storage root refuses some of the opens
InitFault ==
    \E flash \in BOOLEAN : dao_init(FALSE, flash, EmptyRoot) /\ clock = 1700000000
NextFault ==
    \/ DoInsert(FlushInputs)
    \/ open_fault
SpecFault == InitFault /\ [][NextFault]_vars

\* a writer and the consumer of one get_events generator at a time; the
\* writer appends between two requests of the consumer
ScanTimes == {NoTime, utcfromtimestamp(T_JAN6)}
DoScanCall ==
    \E f \in ScanTimes, t \in ScanTimes, vt \in {"", "temperature"} :
        scan_call(f, t, vt, "")
NextScan ==
    \/ scan.state # "running" /\ DoInsert(FlushInputs)
    \/ DoScanCall
    \/ scan_next
    \/ scan_open
    \/ scan_record
    \/ scan_eof
    \/ scan_end
    \/ scan_drop
SpecScan == InitStore /\ [][NextScan]_vars

\* the daemon on every command line of at most MaxArgs channels
ArgWords == {"sensor", "Sensor", "sysmon", "framework", "bogus"}
RECURSIVE ArgLists(_)
ArgLists(n) ==
    IF n = 0 THEN {<<>>}
    ELSE ArgLists(n - 1)
         \cup {Append(l, w) : l \in {a \in ArgLists(n - 1) : Len(a) = n - 1},
                              w \in ArgWords}
NextDaemon ==
    \/ \E argv \in ArgLists(MaxArgs), flash \in BOOLEAN : main(argv, flash)
    \/ svc_start
    \/ \E channel \in {SENSOR_EVENT_CHANNEL, SYSMON_EVENT_CHANNEL,
                       FRAMEWORK_EVENT_CHANNEL} : event_signal(channel)
SpecDaemon == InitStore /\ [][NextDaemon]_vars

\* files with damaged lines, read by the two copies of get_events_for_day
NextCorrupt ==
    \/ DoInsert(CorruptInputs)
    \/ DoCorrupt
    \/ DoGetEventsForDay
    \/ DoLegacyGetEventsForDay
SpecCorrupt == InitStore /\ [][NextCorrupt]_vars

(***************************************************************************)
(* Vocabulary of the properties.                                           *)
(***************************************************************************)
\* an accepted event as a reader gets it back: the value as its string form
as_read(e) == [e EXCEPT !.value = [type |-> "str", repr |-> str(e.value)]]

RECURSIVE map_as_read(_)
map_as_read(es) ==
    IF es = <<>> THEN <<>> ELSE <<as_read(Head(es))>> \o map_as_read(Tail(es))

occurs_in(e, es) == \E k \in DOMAIN es : es[k] = e

no_filter == query.var_type = "" /\ query.var_name = ""

\* an insert_event call returns in this step
insert_step == ncalls' = ncalls + 1

\* the lines the file object holds back
pending == IF current_file = <<>> THEN <<>> ELSE current_file[1].buf

\* the day after the date d
next_date(d) ==
    date_of(plus_1us([year |-> d[1], month |-> d[2], day |-> d[3],
                      hour |-> 23, minute |-> 59, second |-> 59,
                      microsecond |-> 999999]))

(***************************************************************************)
(* C1: every record of a partition file has the UTC calendar day (year,    *)
(* month and day) the file is named after, and there are as many files as  *)
(* distinct UTC calendar days among the accepted events.                   *)
(***************************************************************************)
C1_Partitioning ==
    /\ \A n \in DOMAIN disk : \A k \in DOMAIN disk[n] :
           <<disk[n][k][1].yy, disk[n][k][1].mm, disk[n][k][1].dd>> = n
    /\ Cardinality(DOMAIN disk)
           = Cardinality({date_of(e.timestamp) : e \in {accepted[k] : k \in DOMAIN accepted}})

(***************************************************************************)
(* C2: in default mode get_events_for_day(d) without filter yields exactly *)
(* the accepted events whose UTC calendar day is d, each once, in append   *)
(* order.                                                                  *)
(***************************************************************************)
C2_DayQueryExact ==
    (op = "get_events_for_day" /\ no_filter /\ ~flash_memory)
        => result = map_as_read(SelectSeq(accepted,
                        LAMBDA e : date_of(e.timestamp) = query.day))

(***************************************************************************)
(* C3: on a read-only DAO every insert_event call raises IOError and       *)
(* leaves the files, the set of files, the current file and the current    *)
(* day as they were.                                                       *)
(***************************************************************************)
C3_ReadOnlyEnforced ==
    [][(readonly /\ insert_step)
          => /\ op' = "insert_event" /\ err' = "IOError"
             /\ disk' = disk
             /\ current_file' = current_file
             /\ current_day' = current_day]_vars

C3_Witness ==
    /\ readonly /\ op = "insert_event" /\ err = "IOError"
    /\ disk = PopulatedRoot /\ ncalls >= 2

(***************************************************************************)
(* C4: for a file of valid lines with structurally invalid lines (field    *)
(* count, time stamp, JSON) at any positions, get_events_for_day yields    *)
(* exactly the events of the valid lines, in file order, and raises        *)
(* nothing.  Stated of both copies of the method.                          *)
(***************************************************************************)
valid_line(l) == Len(l) = 5 /\ strptime_ok(l[1]) /\ json_loads_ok(l[5])

RECURSIVE events_of_lines(_)
events_of_lines(ls) ==
    IF ls = <<>> THEN <<>>
    ELSE <<event_of_record(Head(ls))>> \o events_of_lines(Tail(ls))

queried_file ==
    LET n == get_path_for_day(query.day[1], query.day[2], query.day[3])
    IN IF n \in DOMAIN disk THEN disk[n] ELSE <<>>

C4_CorruptionTolerance ==
    (op \in {"get_events_for_day", "legacy_get_events_for_day"} /\ no_filter)
        => /\ err = "ok"
           /\ result = events_of_lines(SelectSeq(queried_file, valid_line))

\* the same, of the current DAO alone (src/lib/python/pycstbox/evtdao/fsys)
C4_CurrentDaoTolerant ==
    (op = "get_events_for_day" /\ no_filter)
        => /\ err = "ok"
           /\ result = events_of_lines(SelectSeq(queried_file, valid_line))

C4_Witness ==
    /\ op = "get_events_for_day"
    /\ Len(result) >= 2
    /\ Len(queried_file) >= Len(result) + 2
    /\ ~valid_line(queried_file[2])

(***************************************************************************)
(* C5: get_events yields a stored event whose time stamp equals to_time    *)
(* (resp. from_time) and does not yield one a microsecond after to_time    *)
(* (resp. before from_time), whichever days the partitions cover.          *)
(***************************************************************************)
C5_BoundInclusivity ==
    (op = "get_events" /\ no_filter)
        => \A k \in DOMAIN accepted :
             LET e == accepted[k]
                 from_time == query.from_time
                 to_time == query.to_time
                 ordered == from_time = NoTime \/ to_time = NoTime
                            \/ ~dt_lt(to_time, from_time)
             IN /\ (to_time # NoTime /\ ordered /\ e.timestamp = to_time)
                    => occurs_in(as_read(e), result)
                /\ (from_time # NoTime /\ ordered /\ e.timestamp = from_time)
                    => occurs_in(as_read(e), result)
                /\ (to_time # NoTime /\ e.timestamp = plus_1us(to_time))
                    => ~occurs_in(as_read(e), result)
                /\ (from_time # NoTime /\ e.timestamp = minus_1us(from_time))
                    => ~occurs_in(as_read(e), result)

(***************************************************************************)
(* C6: get_events yields the per-day sequences one after the other in      *)
(* ascending calendar-day order, and for A then B appended on consecutive  *)
(* UTC days and a range covering both, A then B.                           *)
(***************************************************************************)
C6_DayOrderConcat ==
    (op = "get_events" /\ no_filter)
        => /\ \A i \in DOMAIN result : \A j \in DOMAIN result :
                  i < j => date_le(date_of(result[i].timestamp),
                                   date_of(result[j].timestamp))
           /\ \A k \in DOMAIN accepted :
                  LET A == accepted[k]
                      B == accepted[k + 1]
                      covered(e) ==
                          /\ (query.from_time = NoTime
                              \/ ~dt_lt(e.timestamp, query.from_time))
                          /\ (query.to_time = NoTime
                              \/ ~dt_lt(query.to_time, e.timestamp))
                  IN (/\ k < Len(accepted)
                      /\ date_of(B.timestamp) = next_date(date_of(A.timestamp))
                      /\ covered(A) /\ covered(B))
                     => \E i \in DOMAIN result : \E j \in DOMAIN result :
                            /\ i < j
                            /\ result[i] = as_read(A)
                            /\ result[j] = as_read(B)

(***************************************************************************)
(* C7: the result of get_events with filters is the unfiltered result of   *)
(* the same time range restricted to the events that match every supplied  *)
(* filter.                                                                 *)
(***************************************************************************)
unfiltered_result ==
    events_between(disk, query.from_time, query.to_time, "", "").events

lines_written ==
    \E n \in DOMAIN disk' :
        Len(disk'[n]) > (IF n \in DOMAIN disk THEN Len(disk[n]) ELSE 0)

C8_FlashThrottle ==
    [][(flash_memory /\ insert_step /\ lines_written /\ last_phys # -1)
          => clock - last_phys >= MAX_FLUSH_AGE]_vars

(***************************************************************************)
(* C9: in flash memory mode an accepted append that occurs at least        *)
(* MAX_FLUSH_AGE after the last physical flush flushes the current file    *)
(* before it returns.                                                      *)
(***************************************************************************)
C9_FlushWhenDue ==
    [][(/\ flash_memory /\ insert_step /\ accepted' # accepted
        /\ last_phys # -1 /\ clock - last_phys >= MAX_FLUSH_AGE)
          => /\ current_file'[1].buf = <<>>
             /\ last_phys' = clock
             /\ disk'[current_file'[1].path] # <<>>]_vars

C9_Witness ==
    /\ flash_memory /\ op = "insert_event" /\ Len(accepted) = 2
    /\ clock = 1700000000 + MAX_FLUSH_AGE
    /\ last_flush = clock /\ last_phys = clock
    /\ pending = <<>>

(***************************************************************************)
(* C10: with flash memory mode off every accepted insert_event flushes     *)
(* before it returns: between two calls no written record is pending.      *)
(***************************************************************************)
C10_DefaultDurability ==
    ~flash_memory
        => /\ pending = <<>>
           /\ (current_file # <<>> /\ accepted # <<>>)
                => LET f == disk[current_file[1].path]
                       e == accepted[Len(accepted)]
                   IN /\ f # <<>>
                      /\ <<f[Len(f)]>> = encode_record(e.timestamp,
                                             e.var_type, e.var_name, e.value,
                                             json_dumps(e.data))

C10_Witness ==
    /\ ~flash_memory /\ ~readonly /\ op = "insert_event"
    /\ Len(accepted) >= 2 /\ Cardinality(DOMAIN disk) >= 2
    /\ current_file # <<>>

(***************************************************************************)
(* C11: flush() called with a file open leaves no record pending: the      *)
(* lines the file object held back are in the file, in either mode and at  *)
(* any time since the last flush; called with no file open it changes no   *)
(* file, neither the handle nor the day marker, and it raises nothing.     *)
(***************************************************************************)
flush_step == op' = "flush" /\ ncalls' = ncalls /\ nticks' = nticks

C11_ExplicitFlush ==
    [][flush_step =>
        /\ err' = "ok"
        /\ IF current_file # <<>>
           THEN /\ pending' = <<>>
                /\ disk' = [disk EXCEPT ![current_file[1].path] = @ \o pending]
           ELSE UNCHANGED <<disk, current_file, current_day>>]_vars

\* flush() has written a record the throttle held back, 0 s after boot
C11_Witness ==
    /\ op = "flush" /\ flash_memory /\ clock = 0 /\ last_flush = 0
    /\ Len(accepted) = 1 /\ pending = <<>>
    /\ \E n \in DOMAIN disk : Len(disk[n]) = 1 /\ n # <<24, 1, 4>>

(***************************************************************************)
(* C12: in write mode, insert_event with a data string that is not JSON    *)
(* returns without raising; it writes no record, creates no file, and      *)
(* leaves the file handle, the day marker and the last flush time as they  *)
(* were.                                                                   *)
(***************************************************************************)
C12_MalformedDropped ==
    [][(/\ insert_step /\ ~readonly
        /\ query'.data.kind = "str" /\ query'.data.text \in MalformedTexts)
       => /\ err' = "ok"
          /\ UNCHANGED <<disk, current_file, current_day, last_flush, accepted>>
      ]_vars

\* a malformed event was dropped while a record of another day was pending
C12_Witness ==
    /\ op = "insert_event" /\ err = "ok" /\ ~readonly
    /\ query.data.text \in MalformedTexts
    /\ pending # <<>> /\ current_day # utcfromtimestamp(query.msecs).day

C14_CloseLifecycle ==
    (op = "close" /\ accepted # <<>>)
        => current_file = <<>> /\ current_day = 0 /\ pending = <<>>

(***************************************************************************)
(* C15: constructing a DAO with readonly=True when the storage root        *)
(* dbhome/channel does not exist fails with a not-found error and creates  *)
(* no directory.                                                           *)
(***************************************************************************)
init_step == op = "start" /\ op' = "__init__"

C15_ReadOnlyConstruction ==
    [][(/\ init_step /\ query'.config /\ query'.readonly
        /\ nodes.root = "missing")
       => err' = "IOError" /\ nodes' = nodes]_vars

(***************************************************************************)
(* C16: constructing a DAO in write mode creates the storage root when it  *)
(* is missing, and fails when the path of the storage root exists and is   *)
(* not a directory: no DAO is returned for it.                             *)
(***************************************************************************)
C16_WriteModeConstruction ==
    [][(init_step /\ query'.config /\ ~query'.readonly)
       => /\ (nodes.root = "missing" /\ nodes.home # "file")
                => (err' = "ok" /\ nodes'.root = "dir")
          /\ nodes.root = "file" => err' # "ok"]_vars

(***************************************************************************)
(* C17: get_available_days() without month filter yields every calendar   *)
(* day that has a partition file, each once, in ascending order of the     *)
(* dates, for any set of days the store accepted events of.                *)
(***************************************************************************)
accepted_days == {date_of(accepted[k].timestamp) : k \in DOMAIN accepted}

C17_AvailableDaysAscending ==
    (op = "get_available_days" /\ query.month = <<>>)
        => /\ {result[k] : k \in DOMAIN result} = accepted_days
           /\ \A j, k \in DOMAIN result : j < k => date_lt(result[j], result[k])

(***************************************************************************)
(* C18: for every two-digit year y and month m, the filter (2000 + y, m)   *)
(* yields the same days as the filter (y, m): the days of year 2000 + y    *)
(* and month m that have a partition file.                                 *)
(***************************************************************************)
C18_MonthFilterYear ==
    (/\ op = "get_available_days" /\ query.month # <<>>
     /\ query.month[1] >= 2000)
        => /\ result = available_days(disk, <<query.month[1] - 2000,
                                              query.month[2]>>)
           /\ {result[k] : k \in DOMAIN result}
                = {d \in accepted_days :
                      d[1] = query.month[1] /\ d[2] = query.month[2]}

(***************************************************************************)
(* C19: a query a reader starts after flush() has returned yields every    *)
(* event insert_event accepted before that flush, in default and in flash  *)
(* memory mode, the events written before a switch of day included.        *)
(***************************************************************************)
C19_ReadAfterFlush ==
    (op = "reader.get_events" /\ query.var_type = "")
        => \A k \in 1..flushed : occurs_in(as_read(accepted[k]), result)

\* two days written in flash memory mode without any flush by age, then
\* flush(), then the reader sees both events
C19_Witness ==
    /\ op = "reader.get_events" /\ query.var_type = ""
    /\ flash_memory /\ last_flush = 0 /\ flushed = 2
    /\ Cardinality(DOMAIN disk) = 2 /\ Len(result) = 2

(***************************************************************************)
(* C20: reading back the lines insert_event wrote gives, for each accepted *)
(* event, its var_type, its var_name, its value as a string and its        *)
(* metadata, whatever the value, strings with a tab or a newline included. *)
(***************************************************************************)
codec_fields(e) == <<e.var_type, e.var_name, e.value, e.data>>

C20_RecordRoundTrip ==
    (/\ op = "get_events_for_day" /\ no_filter
     /\ query.day = date_of(utcfromtimestamp(T_JAN5_NOON)))
        => /\ Len(result) = Len(accepted)
           /\ \A k \in DOMAIN accepted :
                  codec_fields(result[k]) = codec_fields(as_read(accepted[k]))

(***************************************************************************)
(* C21: get_events_for_day for a day that has no partition file yields     *)
(* nothing, raises nothing and creates no file.                            *)
(***************************************************************************)
day_query_step == op' = "get_events_for_day" /\ op # "get_events_for_day"

C21_MissingPartition ==
    [][(/\ day_query_step
        /\ get_path_for_day(query'.day[1], query'.day[2], query'.day[3])
               \notin DOMAIN disk)
       => result' = <<>> /\ err' = "ok" /\ disk' = disk]_vars

\* a store with files of two days was asked for a third day
C21_Witness ==
    /\ op = "get_events_for_day" /\ err = "ok" /\ result = <<>>
    /\ Cardinality(DOMAIN disk) = 2
    /\ get_path_for_day(query.day[1], query.day[2], query.day[3])
           \notin DOMAIN disk

(***************************************************************************)
(* C22: the service's get_available_days(year, month) with a year and the  *)
(* month 0 returns every stored day of that year, and with the year 0      *)
(* every stored day.                                                       *)
(***************************************************************************)
C22_ServiceMonthZero ==
    op = "svc.get_available_days"
        => /\ query.year = 0
                => {result[k] : k \in DOMAIN result}
                     = {date_str(d) : d \in accepted_days}
           /\ (query.year # 0 /\ query.month = 0)
                => {result[k] : k \in DOMAIN result}
                     = {date_str(d) : d \in {a \in accepted_days :
                                                a[1] = query.year
                                                \/ a[1] = 2000 + query.year}}

(***************************************************************************)
(* C23: get_events ignores var_type when var_name is provided: with both   *)
(* it yields what it yields with var_name alone over the same time range.  *)
(***************************************************************************)
C23_TypeIgnoredWithName ==
    (op = "get_events" /\ query.var_name # "")
        => result = events_between(disk, query.from_time, query.to_time, "",
                                   query.var_name).events

(***************************************************************************)
(* C24: get_events drops the events before from_time on the first scanned  *)
(* day only and the events after to_time on the last scanned day only:     *)
(* every event stored in the partition of another scanned day is yielded,  *)
(* whatever its timestamp, if it passes the type and name filters.         *)
(***************************************************************************)
scanned == scanned_days_of(disk, query.from_time, query.to_time)

RECURSIVE trimmed_from(_)
\* what the claim lets through of the partitions of the i-th scanned day on
trimmed_from(i) ==
    IF i > Len(scanned) THEN <<>>
    ELSE SelectSeq(events_for_day(disk, scanned[i], "", "", TRUE).events,
                   LAMBDA e :
                     /\ (i = 1 /\ query.from_time # NoTime)
                           => ~dt_lt(e.timestamp, query.from_time)
                     /\ (i = Len(scanned) /\ query.to_time # NoTime)
                           => ~dt_lt(query.to_time, e.timestamp)
                     /\ query.var_type # "" => e.var_type = query.var_type
                     /\ query.var_name # "" => e.var_name = query.var_name)
         \o trimmed_from(i + 1)

C24_BoundaryTrimming == op = "get_events" => result = trimmed_from(1)

\* an event later than to_time was yielded from the partition of a scanned
\* day that is not the last one
C24_Witness ==
    /\ op = "get_events" /\ query.to_time # NoTime /\ query.from_time # NoTime
    /\ Len(scanned) = 2
    /\ \E k \in DOMAIN result : dt_lt(query.to_time, result[k].timestamp)

(***************************************************************************)
(* C29: every event get_events(from_time, to_time) yields from a store     *)
(* filled by insert_event has from_time <= timestamp <= to_time, each      *)
(* bound applying when it is given.                                        *)
(***************************************************************************)
C29_RangeSoundness ==
    op = "get_events"
        => \A k \in DOMAIN result :
              /\ query.from_time # NoTime
                    => ~dt_lt(result[k].timestamp, query.from_time)
              /\ query.to_time # NoTime
                    => ~dt_lt(query.to_time, result[k].timestamp)

(***************************************************************************)
(* C26: each accepted insert_event appends one line of exactly 5 fields at *)
(* the end of one partition file: what that file held is a prefix of what  *)
(* it holds, every other file is unchanged; no query modifies a file.  The *)
(* content of a file is what was written to it, flushed or not.            *)
(***************************************************************************)
content(d, cf, n) ==
    (IF n \in DOMAIN d THEN d[n] ELSE <<>>)
    \o (IF cf # <<>> /\ cf[1].path = n THEN cf[1].buf ELSE <<>>)

appended_line(n) ==
    LET old == content(disk, current_file, n)
        new == content(disk', current_file', n)
    IN /\ Len(new) = Len(old) + 1
       /\ SubSeq(new, 1, Len(old)) = old
       /\ Len(new[Len(new)]) = 5

C26_AppendOnly ==
    [][/\ (insert_step /\ accepted' # accepted)
          => \E n \in DOMAIN disk' :
                /\ appended_line(n)
                /\ \A m \in (DOMAIN disk' \cup DOMAIN disk) \ {n} :
                      content(disk', current_file', m)
                        = content(disk, current_file, m)
       /\ op' \in QueryOps => UNCHANGED <<disk, current_file>>]_vars

(***************************************************************************)
(* C30: insert_event leaves the data mapping of its caller unchanged:      *)
(* after the call the object passed as data holds the keys and values it   *)
(* held before, "value" included.                                          *)
(***************************************************************************)
C30_CallerDataUnchanged ==
    [][insert_step => caller_data' = query'.data]_vars

(***************************************************************************)
(* C27: at most one partition file is open for writing in every reachable  *)
(* state of a DAO: a day switch closes the current file before it opens    *)
(* the file of the new day, and the file left open is the current one.     *)
(***************************************************************************)
C27_SingleWriteHandle ==
    /\ Len(wopen) <= 1
    /\ wopen # <<>> => current_file # <<>> /\ wopen[1] = current_file[1].path

\* a second partition has been opened, after a day switch
C27_Witness ==
    /\ Cardinality(DOMAIN disk) >= 2
    /\ Len(wopen) = 1 /\ wopen[1] = current_file[1].path

(***************************************************************************)
(* C28: after any sequence of insert_event calls, those whose open() fails *)
(* with an I/O error included, the current day marker is unset exactly     *)
(* when the current file handle is unset; when set, the handle is an open  *)
(* file, the partition of the marked day; and no insert_event writes to a  *)
(* closed handle.                                                          *)
(***************************************************************************)
C28_HandleMarkerCoherence ==
    /\ current_day = 0 <=> current_file = <<>>
    /\ current_file # <<>>
          => /\ ~current_file[1].closed
             /\ date_of_name(current_file[1].path)[3] = current_day
    /\ ~(op = "insert_event" /\ err = "ValueError")

(***************************************************************************)
(* C25: during one get_events iteration at most one partition file is open *)
(* for reading at any step; a partition file is opened only while a        *)
(* request of the consumer is pending, once the files opened before it are *)
(* closed and every event yielded so far has been delivered, so that the   *)
(* file open when the generator is suspended is the one its last event was *)
(* read from; a consumer that stops early leaves no file open and causes   *)
(* no later file to be opened.                                             *)
(***************************************************************************)
opens_file == Len(scan'.opened) > Len(scan.opened)

C25_LazyScan ==
    /\ [](Len(scan.fopen) <= 1)
    /\ [][opens_file => /\ scan.state = "running" /\ scan.fopen = <<>>
                        /\ Len(scan.events) < scan.requests]_vars
    /\ [](scan.state \in {"suspended", "dropped"} /\ scan.events # <<>>
            => scan.opened[Len(scan.opened)] = scan.src[Len(scan.src)])
    /\ [](scan.state = "dropped"
            => scan.fopen = <<>> /\ (scan.events = <<>> => scan.opened = <<>>))
    /\ [][scan.state = "dropped" /\ scan'.state = "dropped"
            => scan'.opened = scan.opened]_vars

\* the consumer stopped after the first event of the second of three days
C25_Witness ==
    /\ scan.state = "dropped"
    /\ Len(scan.scanned_days) = 3 /\ Len(scan.opened) = 2
    /\ Len(scan.events) = 2

(***************************************************************************)
(* C31: for any list of channel arguments, duplicates included, the daemon *)
(* creates exactly one DAO, in write mode, and exactly one service object  *)
(* for each distinct channel; no two DAOs have the same storage root, so   *)
(* no two writers append under the same root, and the events of a channel  *)
(* are written under the root of that channel only.                        *)
(***************************************************************************)
wanted_channels ==
    IF daemon.argv = <<>> THEN {SENSOR_EVENT_CHANNEL}
    ELSE {lower(daemon.argv[k]) : k \in DOMAIN daemon.argv}

C31_SingleWriterPerChannel ==
    daemon.state \in {"created", "running"} =>
        LET daos == daemon.daos
            sos == daemon.svc_objects
        IN /\ \A c \in wanted_channels :
                /\ Cardinality({k \in DOMAIN daos : daos[k].channel = c}) = 1
                /\ Cardinality({k \in DOMAIN sos : sos[k].channel = c}) = 1
           /\ \A k \in DOMAIN daos :
                /\ daos[k].channel \in wanted_channels
                /\ ~daos[k].dao.readonly
                /\ daos[k].dao.dbhome = <<DB_HOME, daos[k].channel>>
           /\ \A k \in DOMAIN sos :
                /\ sos[k].channel \in wanted_channels
                /\ daos[sos[k].dao].channel = sos[k].channel
           /\ \A j, k \in DOMAIN daos :
                j # k => daos[j].dao.dbhome # daos[k].dao.dbhome
           /\ \A r \in DOMAIN daemon.files :
                \A n \in DOMAIN daemon.files[r] :
                    /\ r = <<DB_HOME, daemon.files[r][n].channel>>
                    /\ daemon.files[r][n].dao = daemon.files[r][1].dao

\* a command line naming a channel twice, events written under two roots
C31_Witness ==
    /\ daemon.state = "running"
    /\ Len(daemon.argv) > Cardinality(wanted_channels)
    /\ Cardinality({r \in DOMAIN daemon.files : daemon.files[r] # <<>>}) = 2
====
